---- MODULE Spec2Model ----
(***************************************************************************)
(* The /sync endpoint of the TimeCheck backend (src/app/main.py): the      *)
(* record store (tasks, time entries), the change collapser, the change    *)
(* applier with its owner guard and last-writer-wins rule, and the delta   *)
(* query that builds the response.                                         *)
(*                                                                         *)
(* Timestamps are naive UTC instants, modelled as integers.  An optional   *)
(* value (Python's None or a value) is a sequence of length 0 or 1.  The   *)
(* owner column user_id of the two tables is taken from its use in         *)
(* main.py (lines 106, 108, 128, 130, 213, 214).                           *)
(*                                                                         *)
(* Three specifications share the variables:                               *)
(*   Spec           requests handled one at a time, each a single step;    *)
(*                  the commit succeeds (the default engine of db.py is    *)
(*                  SQLite, which does not enforce the foreign key of      *)
(*                  time_entries.task_id);                                 *)
(*   DevicesSpec    two requests of one principal in flight side by side,  *)
(*                  each with its own Session, stepping through db.get(),  *)
(*                  db.commit() (which may fail) and the queries;          *)
(*   CollapserSpec  _collapse_changes called on a change list.             *)
(***************************************************************************)
EXTENDS Integers, Sequences, FiniteSets, TLC

\* ---------------------------------------------------------------- bounds
\* Greatest client revision time (client_updated_at) a payload carries.
MaxRev == 3
\* Greatest reading of the server clock (datetime.utcnow()).
MaxClock == 2
\* Greatest number of changes (tasks plus time entries) in one request.
MaxBatch == 2
\* Greatest number of requests the two devices start while they run
\* side by side.
MaxRequests == 3
\* Greatest length of a change list handed to the collapser on its own.
MaxList == 3

Users == {"alice", "bob"}
\* The ids task payloads carry, the ids a time entry's task_id may name (one
\* of them never stored as a task), and the ids time entry payloads carry.
TaskIds == {"t1"}
TaskRefs == {"t1", "t2"}
EntryIds == {"e1"}
Revs == 1..MaxRev
Clock == 1..MaxClock

None == <<>>
Some(v) == <<v>>
IsNone(o) == Len(o) = 0
Get(o) == o[1]

\* ------------------------------------------------------- wire format
\* schemas.py: op: Literal["upsert", "delete"]
Ops == {"upsert", "delete"}

\* The contents a client puts in a task payload besides id and revision.
TaskBodies ==
    { [title |-> "A", description |-> None, created_at |-> 1, deleted_at |-> None],
      [title |-> "B", description |-> Some("d"), created_at |-> 2, deleted_at |-> Some(2)] }

\* The contents a client puts in a time entry payload besides id, task_id
\* and revision.
EntryBodies ==
    { [started_at |-> 1, stopped_at |-> None, comment |-> None,
       created_at |-> 1, deleted_at |-> None],
      [started_at |-> 2, stopped_at |-> Some(2), comment |-> Some("c"),
       created_at |-> 2, deleted_at |-> Some(2)] }

\* schemas.py TaskPayload.  The client's own updated_at is on the wire but
\* the server never reads it; 0 is a value no server stamp takes.
TaskPayload ==
    { [id |-> i, title |-> b.title, description |-> b.description,
       created_at |-> b.created_at, updated_at |-> 0,
       deleted_at |-> b.deleted_at, client_updated_at |-> r] :
      i \in TaskIds, b \in TaskBodies, r \in Revs }

\* schemas.py TimeEntryPayload.
TimeEntryPayload ==
    { [id |-> i, task_id |-> t, started_at |-> b.started_at,
       stopped_at |-> b.stopped_at, comment |-> b.comment,
       created_at |-> b.created_at, updated_at |-> 0,
       deleted_at |-> b.deleted_at, client_updated_at |-> r] :
      i \in EntryIds, t \in TaskRefs, b \in EntryBodies, r \in Revs }

\* schemas.py TaskChange and TimeEntryChange, as a client builds them: a
\* change that sets deleted_at is tagged "delete", any other "upsert".
OpOf(payload) == IF IsNone(payload.deleted_at) THEN "upsert" ELSE "delete"
TaskChange == { [op |-> OpOf(p), data |-> p] : p \in TaskPayload }
TimeEntryChange == { [op |-> OpOf(p), data |-> p] : p \in TimeEntryPayload }

SeqsUpTo(S, n) == UNION { [1..k -> S] : k \in 0..n }

\* The last_sync_at values clients send.  Every stamp is at least the
\* clock's first reading, so a watermark there selects what None selects.
Watermarks == {None} \cup { Some(c) : c \in Clock \ {1} }

\* schemas.py SyncRequest with its SyncChanges flattened; at most MaxBatch
\* changes in all.
SyncRequest ==
    UNION { { [last_sync_at |-> w, tasks |-> ts, time_entries |-> es] :
              w \in Watermarks,
              ts \in [1..k -> TaskChange],
              es \in SeqsUpTo(TimeEntryChange, MaxBatch - k) } :
            k \in 0..MaxBatch }

\* ------------------------------------------------------------- state
VARIABLES
    tasks,      \* table tasks: id -> row, for the ids stored
    entries,    \* table time_entries: id -> row, for the ids stored
    now,        \* the server clock, what datetime.utcnow() returns
    caller,     \* the principal of the latest /sync request, None before any
    watermark,  \* the last_sync_at of the latest /sync request
    response,   \* the SyncResponse of the latest /sync request, None before any
    high,       \* per record, the greatest client_updated_at applied to it
    pc,         \* per device, where its request in flight stands in sync()
    job,        \* per device, the principal and the SyncRequest in flight
    sess,       \* per device, the Session of the request in flight
    cursor,     \* per device, the server_time of its latest response
    got,        \* per device, each record as its responses delivered it last
    started,    \* the number of requests the devices started
    batch,      \* the change list handed to _collapse_changes on its own
    collapsed   \* what _collapse_changes returned for it, None before the call

\* The variables of requests handled one at a time, of requests in flight
\* side by side, and of the collapser on its own.
seqvars == <<caller, watermark, response, high>>
devvars == <<pc, job, sess, cursor, got, started>>
colvars == <<batch, collapsed>>
vars == <<tasks, entries, now, caller, watermark, response, high,
          pc, job, sess, cursor, got, started, batch, collapsed>>

\* ------------------------------------------------------ change applier
\* Mutants of _should_apply: no comparison at all; the comparison the
\* wrong way round; a strict comparison.
ShouldApplyAlways(existing, incoming) == TRUE

ShouldApplyOlder(existing, incoming) ==
    IF IsNone(existing) THEN TRUE ELSE incoming <= Get(existing)

ShouldApplyStrict(existing, incoming) ==
    IF IsNone(existing) THEN TRUE ELSE incoming > Get(existing)

\* main.py _should_apply: existing is None for a row just constructed.
ShouldApply(existing, incoming) ==
    IF IsNone(existing) THEN TRUE ELSE incoming >= Get(existing)

\* Mutant of the row _apply_task writes: updated_at taken from the payload.
TaskRowClientStamp(owner, payload, stamp) ==
    [user_id |-> owner,
     title |-> payload.title,
     description |-> payload.description,
     created_at |-> payload.created_at,
     updated_at |-> payload.updated_at,
     deleted_at |-> payload.deleted_at,
     client_updated_at |-> payload.client_updated_at]

\* The row _apply_task writes (main.py 114-119); user_id is set by the
\* constructor (main.py 106) or left as stored.
TaskRow(owner, payload, stamp) ==
    [user_id |-> owner,
     title |-> payload.title,
     description |-> payload.description,
     created_at |-> payload.created_at,
     updated_at |-> stamp,
     deleted_at |-> payload.deleted_at,
     client_updated_at |-> payload.client_updated_at]

\* Mutant of _apply_task: no owner check (main.py 108-109 left out).
ApplyTaskUnguarded(T, user, payload, stamp) ==
    IF payload.id \notin DOMAIN T
    THEN [i \in DOMAIN T \cup {payload.id} |->
            IF i = payload.id THEN TaskRow(user, payload, stamp) ELSE T[i]]
    ELSE IF ~ShouldApply(Some(T[payload.id].client_updated_at),
                         payload.client_updated_at)
    THEN T
    ELSE [T EXCEPT ![payload.id] = TaskRow(T[payload.id].user_id, payload, stamp)]

\* Mutant of _apply_task: no comparison of client_updated_at (main.py
\* 111-112 left out).
ApplyTaskNoCompare(T, user, payload, stamp) ==
    IF payload.id \notin DOMAIN T
    THEN [i \in DOMAIN T \cup {payload.id} |->
            IF i = payload.id THEN TaskRow(user, payload, stamp) ELSE T[i]]
    ELSE IF T[payload.id].user_id # user
    THEN T
    ELSE [T EXCEPT ![payload.id] = TaskRow(T[payload.id].user_id, payload, stamp)]

\* main.py _apply_task, on the session's tasks T.
ApplyTask(T, user, payload, stamp) ==
    IF payload.id \notin DOMAIN T
    THEN IF ShouldApply(None, payload.client_updated_at)
         THEN [i \in DOMAIN T \cup {payload.id} |->
                 IF i = payload.id THEN TaskRow(user, payload, stamp) ELSE T[i]]
         ELSE T
    ELSE IF T[payload.id].user_id # user
    THEN T
    ELSE IF ~ShouldApply(Some(T[payload.id].client_updated_at),
                         payload.client_updated_at)
    THEN T
    ELSE [T EXCEPT ![payload.id] = TaskRow(T[payload.id].user_id, payload, stamp)]

\* The row _apply_time_entry writes (main.py 136-143).
TimeEntryRow(owner, payload, stamp) ==
    [user_id |-> owner,
     task_id |-> payload.task_id,
     started_at |-> payload.started_at,
     stopped_at |-> payload.stopped_at,
     comment |-> payload.comment,
     created_at |-> payload.created_at,
     updated_at |-> stamp,
     deleted_at |-> payload.deleted_at,
     client_updated_at |-> payload.client_updated_at]

\* db.get(Task, id) in the time entry phase.  SessionLocal is made with
\* autoflush=False (db.py 17), so a Task added by db.add() in the task
\* phase of this request is still pending: it is not in the identity map
\* and the SELECT that db.get() emits does not flush it.  The lookup sees
\* the rows committed before the request (T0), with the attribute values of
\* the session (T).
GetTask(T0, T, id) ==
    IF id \in DOMAIN T0 THEN Some(T[id]) ELSE None

\* Mutant of _apply_time_entry: a new time entry is stored without looking
\* up its task (main.py 125-127 left out).
ApplyTimeEntryUnchecked(E, T0, T, user, payload, stamp) ==
    IF payload.id \notin DOMAIN E
    THEN [i \in DOMAIN E \cup {payload.id} |->
            IF i = payload.id THEN TimeEntryRow(user, payload, stamp) ELSE E[i]]
    ELSE IF E[payload.id].user_id # user
    THEN E
    ELSE IF ~ShouldApply(Some(E[payload.id].client_updated_at),
                         payload.client_updated_at)
    THEN E
    ELSE [E EXCEPT ![payload.id] =
            TimeEntryRow(E[payload.id].user_id, payload, stamp)]

\* main.py _apply_time_entry, on the session's time entries E.
ApplyTimeEntry(E, T0, T, user, payload, stamp) ==
    IF payload.id \notin DOMAIN E
    THEN LET task == GetTask(T0, T, payload.task_id) IN
         IF IsNone(task) \/ Get(task).user_id # user
         THEN E
         ELSE IF ShouldApply(None, payload.client_updated_at)
              THEN [i \in DOMAIN E \cup {payload.id} |->
                      IF i = payload.id THEN TimeEntryRow(user, payload, stamp)
                      ELSE E[i]]
              ELSE E
    ELSE IF E[payload.id].user_id # user
    THEN E
    ELSE IF ~ShouldApply(Some(E[payload.id].client_updated_at),
                         payload.client_updated_at)
    THEN E
    ELSE [E EXCEPT ![payload.id] =
            TimeEntryRow(E[payload.id].user_id, payload, stamp)]

\* ---------------------------------------------------- change collapser
\* Mutant of the loop of _collapse_changes: the later change of an id always
\* replaces the earlier one.
CollapseStepLastWins(latest, change) ==
    IF \E j \in 1..Len(latest) : latest[j].data.id = change.data.id
    THEN LET j == CHOOSE k \in 1..Len(latest) :
                    latest[k].data.id = change.data.id IN
         [latest EXCEPT ![j] = change]
    ELSE Append(latest, change)

\* Mutant of the loop of _collapse_changes: a change replaces the one kept
\* for its id only when its client_updated_at is greater.
CollapseStepStrict(latest, change) ==
    IF \E j \in 1..Len(latest) : latest[j].data.id = change.data.id
    THEN LET j == CHOOSE k \in 1..Len(latest) :
                    latest[k].data.id = change.data.id IN
         IF change.data.client_updated_at > latest[j].data.client_updated_at
         THEN [latest EXCEPT ![j] = change]
         ELSE latest
    ELSE Append(latest, change)

\* One step of the loop of _collapse_changes: latest is the dict, kept as
\* the sequence of its values in insertion order; assigning to a key the
\* dict already holds keeps the key's position.
CollapseStep(latest, change) ==
    IF \E j \in 1..Len(latest) : latest[j].data.id = change.data.id
    THEN LET j == CHOOSE k \in 1..Len(latest) :
                    latest[k].data.id = change.data.id IN
         IF change.data.client_updated_at >= latest[j].data.client_updated_at
         THEN [latest EXCEPT ![j] = change]
         ELSE latest
    ELSE Append(latest, change)

RECURSIVE CollapseFrom(_, _, _)
CollapseFrom(latest, changes, k) ==
    IF k > Len(changes) THEN latest
    ELSE CollapseFrom(CollapseStep(latest, changes[k]), changes, k + 1)

\* main.py _collapse_changes
CollapseChanges(changes) == CollapseFrom(<<>>, changes, 1)

\* ---------------------------------------------------- sync orchestrator
\* Mutant of the task phase: the op tag is read, and a change tagged
\* "delete" is not handed to _apply_task.
RECURSIVE ApplyTasksByOp(_, _, _, _, _)
ApplyTasksByOp(T, user, changes, k, stamp) ==
    IF k > Len(changes) THEN T
    ELSE ApplyTasksByOp(IF changes[k].op = "delete" THEN T
                        ELSE ApplyTask(T, user, changes[k].data, stamp),
                        user, changes, k + 1, stamp)

\* main.py 204-205: the task phase.
RECURSIVE ApplyTasks(_, _, _, _, _)
ApplyTasks(T, user, changes, k, stamp) ==
    IF k > Len(changes) THEN T
    ELSE ApplyTasks(ApplyTask(T, user, changes[k].data, stamp),
                    user, changes, k + 1, stamp)

\* main.py 207-208: the time entry phase.
RECURSIVE ApplyTimeEntries(_, _, _, _, _, _, _)
ApplyTimeEntries(E, T0, T, user, changes, k, stamp) ==
    IF k > Len(changes) THEN E
    ELSE ApplyTimeEntries(ApplyTimeEntry(E, T0, T, user, changes[k].data, stamp),
                          T0, T, user, changes, k + 1, stamp)

\* main.py 204-210: the two tables after db.commit(), from the tables T0 and
\* E0 the request found.
StoreAfter(T0, E0, user, req, stamp) ==
    LET T == ApplyTasks(T0, user, CollapseChanges(req.tasks), 1, stamp) IN
    [tasks |-> T,
     entries |-> ApplyTimeEntries(E0, T0, T, user,
                                  CollapseChanges(req.time_entries), 1, stamp)]

\* Mutant of the task query: no filter on the owner.
TaskQueryAnyOwner(T, user, last_sync) ==
    { i \in DOMAIN T : IsNone(last_sync) \/ T[i].updated_at >= Get(last_sync) }

\* main.py 213, 216, 219: the ids the task query selects.
TaskQuery(T, user, last_sync) ==
    { i \in DOMAIN T :
        /\ T[i].user_id = user
        /\ (IsNone(last_sync) \/ T[i].updated_at >= Get(last_sync)) }

\* main.py 214, 217, 220: the ids the time entry query selects.
EntryQuery(E, user, last_sync) ==
    { i \in DOMAIN E :
        /\ E[i].user_id = user
        /\ (IsNone(last_sync) \/ E[i].updated_at >= Get(last_sync)) }

\* main.py 225-233
TaskOut(i, row) ==
    [id |-> i, title |-> row.title, description |-> row.description,
     created_at |-> row.created_at, updated_at |-> row.updated_at,
     deleted_at |-> row.deleted_at, client_updated_at |-> row.client_updated_at]

\* main.py 237-247
TimeEntryOut(i, row) ==
    [id |-> i, task_id |-> row.task_id, started_at |-> row.started_at,
     stopped_at |-> row.stopped_at, comment |-> row.comment,
     created_at |-> row.created_at, updated_at |-> row.updated_at,
     deleted_at |-> row.deleted_at, client_updated_at |-> row.client_updated_at]

\* main.py 212-250: the response, from the committed tables.  The queries
\* have no ORDER BY, so the two lists are kept as sets.
SyncResponse(T, E, user, last_sync, server_time) ==
    [server_time |-> server_time,
     tasks |-> { TaskOut(i, T[i]) : i \in TaskQuery(T, user, last_sync) },
     time_entries |-> { TimeEntryOut(i, E[i]) : i \in EntryQuery(E, user, last_sync) }]

\* ------------------------------------------------- applied revisions
\* The greatest client_updated_at applied per record, after a request that
\* found the rows R0 and left the rows R: a payload is applied when the
\* applier reaches its writes (main.py 114-119, 136-143) and they change the
\* row, and the row then carries the payload's client_updated_at.
HighRows(h, R0, R) ==
    [i \in DOMAIN R |->
       IF i \notin DOMAIN R0 THEN R[i].client_updated_at
       ELSE IF R[i] # R0[i] /\ R[i].client_updated_at > h[i]
       THEN R[i].client_updated_at
       ELSE h[i]]

HighAfter(H, T0, E0, S) ==
    [tasks |-> HighRows(H.tasks, T0, S.tasks),
     entries |-> HighRows(H.entries, E0, S.entries)]

\* ----------------------------------------------------------- actions
\* The devices of the requests that run side by side; both are signed in
\* as one principal.
Devices == {"d1", "d2"}
Principal == "alice"

\* A Session with nothing loaded and nothing pending: k is the position in
\* the change list of the phase, loadedT and loadedE are the rows as
\* db.get() loaded them, curT and curE the rows as the session holds them
\* (the loaded ones with the handler's writes, and the ones added).
NoSession == [k |-> 1, loadedT |-> <<>>, curT |-> <<>>, loadedE |-> <<>>, curE |-> <<>>]

NoJob == [user |-> Principal,
          req |-> [last_sync_at |-> None, tasks |-> <<>>, time_entries |-> <<>>]]

\* No request is in flight on any device, and none has been.
DevicesIdle ==
    /\ pc = [d \in Devices |-> "idle"]
    /\ job = [d \in Devices |-> NoJob]
    /\ sess = [d \in Devices |-> NoSession]
    /\ cursor = [d \in Devices |-> None]
    /\ got = [d \in Devices |-> [tasks |-> <<>>, time_entries |-> <<>>]]
    /\ started = 0

\* The collapser is not called on its own.
CollapserIdle ==
    /\ batch = <<>>
    /\ collapsed = None

StoreEmpty ==
    /\ tasks = <<>>
    /\ entries = <<>>
    /\ now = 1
    /\ caller = None
    /\ watermark = None
    /\ response = None
    /\ high = [tasks |-> <<>>, entries |-> <<>>]

Init ==
    /\ StoreEmpty
    /\ DevicesIdle
    /\ CollapserIdle

\* POST /sync (main.py 198-250) by an authenticated principal.  Every
\* record applied is stamped with the clock's reading; the clock may move
\* on before the handler reads server_time (main.py 223).
Sync(user, req) ==
    \E S \in {StoreAfter(tasks, entries, user, req, now)} :
      \E later \in Clock :
        /\ later >= now
        /\ tasks' = S.tasks
        /\ entries' = S.entries
        /\ now' = later
        /\ caller' = Some(user)
        /\ watermark' = req.last_sync_at
        /\ response' = Some(SyncResponse(S.tasks, S.entries, user,
                                        req.last_sync_at, later))
        /\ high' = HighAfter(high, tasks, entries, S)
        /\ UNCHANGED <<devvars, colvars>>

\* Time passes between requests.
Tick ==
    /\ now < MaxClock
    /\ now' = now + 1
    /\ UNCHANGED <<tasks, entries, seqvars, devvars, colvars>>

Next ==
    \/ \E user \in Users, req \in SyncRequest : Sync(user, req)
    \/ Tick

Spec == Init /\ [][Next]_vars

\* ------------------------------------------- requests side by side
\* sync() is a plain def, which the framework runs in a thread pool, so
\* requests run side by side, each with the Session get_db() made for it
\* (main.py 55-60).  A request touches the database in db.get() (main.py
\* 104, 123, 125), in db.commit() (main.py 210) and in the two queries
\* (main.py 219-220); between two of these another request may act.

\* The requests a device sends: at most one task change and at most one
\* time entry change, which starts an entry on a task the task changes are
\* for; last_sync_at is the server_time of the device's latest response.
DeviceEntryChange ==
    { c \in TimeEntryChange :
        /\ c.data.task_id \in TaskIds
        /\ c.data.client_updated_at = 1
        /\ IsNone(c.data.deleted_at) }

DeviceRequest(d) ==
    { [last_sync_at |-> cursor[d], tasks |-> ts, time_entries |-> es] :
        ts \in SeqsUpTo(TaskChange, 1),
        es \in SeqsUpTo(DeviceEntryChange, 1) }

\* The identity map L after db.get() of id on a table: a row not loaded yet
\* is read from the committed table, a loaded one is not read again.
Loaded(L, table, id) ==
    IF id \in DOMAIN L \/ id \notin DOMAIN table THEN L
    ELSE [i \in DOMAIN L \cup {id} |-> IF i = id THEN table[id] ELSE L[i]]

\* The phase sync() enters once the task changes from position k on, and
\* the time entry changes from position j on, are left to apply.
PhaseAt(req, k, j) ==
    IF k <= Len(CollapseChanges(req.tasks)) THEN "tasks"
    ELSE IF j <= Len(CollapseChanges(req.time_entries)) THEN "entries"
    ELSE "commit"

\* A request arrives (main.py 198-203) with a fresh Session (main.py 56).
Begin(d, req) ==
    /\ pc[d] \in {"idle", "failed"}
    /\ started < MaxRequests
    /\ started' = started + 1
    /\ job' = [job EXCEPT ![d] = [user |-> Principal, req |-> req]]
    /\ sess' = [sess EXCEPT ![d] = NoSession]
    /\ pc' = [pc EXCEPT ![d] = PhaseAt(req, 1, 1)]
    /\ UNCHANGED <<tasks, entries, now, cursor, got, seqvars, colvars>>

\* One turn of the loop at main.py 204-205: _apply_task on the Session.
TaskStep(d) ==
    /\ pc[d] = "tasks"
    /\ LET s == sess[d]
           payload == CollapseChanges(job[d].req.tasks)[s.k].data IN
       /\ sess' = [sess EXCEPT ![d] =
                     [s EXCEPT !.k = IF PhaseAt(job[d].req, s.k + 1, 1) = "tasks"
                                     THEN s.k + 1 ELSE 1,
                               !.loadedT = Loaded(s.loadedT, tasks, payload.id),
                               !.curT = ApplyTask(Loaded(s.curT, tasks, payload.id),
                                                  job[d].user, payload, now)]]
       /\ pc' = [pc EXCEPT ![d] = PhaseAt(job[d].req, s.k + 1, 1)]
    /\ UNCHANGED <<tasks, entries, now, job, cursor, got, started, seqvars, colvars>>

\* What db.get(Task, id) finds in the time entry phase: the rows of the
\* identity map and the committed rows; a Task added by this request is
\* pending and found by neither (autoflush=False, db.py 17).
TasksInReach(s) ==
    [i \in DOMAIN s.loadedT \cup DOMAIN tasks |->
       IF i \in DOMAIN s.loadedT THEN s.curT[i] ELSE tasks[i]]

\* One turn of the loop at main.py 207-208: _apply_time_entry on the Session.
EntryStep(d) ==
    /\ pc[d] = "entries"
    /\ LET s == sess[d]
           payload == CollapseChanges(job[d].req.time_entries)[s.k].data IN
       /\ sess' = [sess EXCEPT ![d] =
                     [s EXCEPT !.k = s.k + 1,
                               !.loadedE = Loaded(s.loadedE, entries, payload.id),
                               !.curE = ApplyTimeEntry(
                                            Loaded(s.curE, entries, payload.id),
                                            TasksInReach(s), TasksInReach(s),
                                            job[d].user, payload, now)]]
       /\ pc' = [pc EXCEPT ![d] = PhaseAt(job[d].req, Len(job[d].req.tasks) + 1, s.k + 1)]
    /\ UNCHANGED <<tasks, entries, now, job, cursor, got, started, seqvars, colvars>>

\* The value the flush leaves in a column of a loaded row: the UPDATE sets
\* the columns whose value the handler changed, and no other.
Col(stored, loaded, cur, c) ==
    IF cur[c] # loaded[c] THEN cur[c] ELSE stored[c]

TaskFlushed(stored, loaded, cur) ==
    [user_id |-> Col(stored, loaded, cur, "user_id"),
     title |-> Col(stored, loaded, cur, "title"),
     description |-> Col(stored, loaded, cur, "description"),
     created_at |-> Col(stored, loaded, cur, "created_at"),
     updated_at |-> Col(stored, loaded, cur, "updated_at"),
     deleted_at |-> Col(stored, loaded, cur, "deleted_at"),
     client_updated_at |-> Col(stored, loaded, cur, "client_updated_at")]

EntryFlushed(stored, loaded, cur) ==
    [user_id |-> Col(stored, loaded, cur, "user_id"),
     task_id |-> Col(stored, loaded, cur, "task_id"),
     started_at |-> Col(stored, loaded, cur, "started_at"),
     stopped_at |-> Col(stored, loaded, cur, "stopped_at"),
     comment |-> Col(stored, loaded, cur, "comment"),
     created_at |-> Col(stored, loaded, cur, "created_at"),
     updated_at |-> Col(stored, loaded, cur, "updated_at"),
     deleted_at |-> Col(stored, loaded, cur, "deleted_at"),
     client_updated_at |-> Col(stored, loaded, cur, "client_updated_at")]

\* The flush of db.commit() cannot be done: the Session holds a row to
\* INSERT under a primary key the table holds by now (models.py 17, 29).
KeyClash(s) ==
    \/ \E i \in DOMAIN s.curT \ DOMAIN s.loadedT : i \in DOMAIN tasks
    \/ \E i \in DOMAIN s.curE \ DOMAIN s.loadedE : i \in DOMAIN entries

\* A commit that stores the tasks of the Session and not its time entries.
FlushTasksOnly(s) ==
    [tasks |-> [i \in DOMAIN tasks \cup DOMAIN s.curT |->
                  IF i \notin DOMAIN s.curT THEN tasks[i]
                  ELSE IF i \notin DOMAIN s.loadedT THEN s.curT[i]
                  ELSE TaskFlushed(tasks[i], s.loadedT[i], s.curT[i])],
     entries |-> entries]

\* The two tables after the flush and COMMIT of db.commit() (main.py 210):
\* one INSERT per row added, one UPDATE per row loaded and changed, in one
\* transaction.
Flush(s) ==
    [tasks |-> [i \in DOMAIN tasks \cup DOMAIN s.curT |->
                  IF i \notin DOMAIN s.curT THEN tasks[i]
                  ELSE IF i \notin DOMAIN s.loadedT THEN s.curT[i]
                  ELSE TaskFlushed(tasks[i], s.loadedT[i], s.curT[i])],
     entries |-> [i \in DOMAIN entries \cup DOMAIN s.curE |->
                  IF i \notin DOMAIN s.curE THEN entries[i]
                  ELSE IF i \notin DOMAIN s.loadedE THEN s.curE[i]
                  ELSE EntryFlushed(entries[i], s.loadedE[i], s.curE[i])]]

\* db.commit() succeeds (main.py 210).
Commit(d) ==
    /\ pc[d] = "commit"
    /\ ~KeyClash(sess[d])
    /\ tasks' = Flush(sess[d]).tasks
    /\ entries' = Flush(sess[d]).entries
    /\ pc' = [pc EXCEPT ![d] = "query"]
    /\ sess' = [sess EXCEPT ![d] = NoSession]
    /\ UNCHANGED <<now, job, cursor, got, started, seqvars, colvars>>

\* db.commit() raises, on a key clash or on a failure of the database: the
\* transaction is rolled back, the handler ends with the exception and
\* get_db() closes the Session (main.py 59-60).
CommitFails(d) ==
    /\ pc[d] = "commit"
    /\ pc' = [pc EXCEPT ![d] = "failed"]
    /\ sess' = [sess EXCEPT ![d] = NoSession]
    /\ UNCHANGED <<tasks, entries, now, job, cursor, got, started,
                   seqvars, colvars>>

\* The records of a device after it merged the response r into the ones it
\* held: each record of r replaces the one held under its id.
Merged(held, r) ==
    [tasks |-> [i \in DOMAIN held.tasks \cup { t.id : t \in r.tasks } |->
                  IF \E t \in r.tasks : t.id = i
                  THEN CHOOSE t \in r.tasks : t.id = i
                  ELSE held.tasks[i]],
     time_entries |->
                [i \in DOMAIN held.time_entries \cup { t.id : t \in r.time_entries } |->
                  IF \E t \in r.time_entries : t.id = i
                  THEN CHOOSE t \in r.time_entries : t.id = i
                  ELSE held.time_entries[i]]]

\* The two queries and the response (main.py 212-250); the device keeps
\* server_time as its next last_sync_at and merges the records.
Deliver(d) ==
    /\ pc[d] = "query"
    /\ \E later \in Clock :
         /\ later >= now
         /\ now' = later
         /\ cursor' = [cursor EXCEPT ![d] = Some(later)]
         /\ got' = [got EXCEPT ![d] =
                      Merged(@, SyncResponse(tasks, entries, job[d].user,
                                             job[d].req.last_sync_at, later))]
    /\ pc' = [pc EXCEPT ![d] = "idle"]
    /\ job' = [job EXCEPT ![d] = NoJob]
    /\ UNCHANGED <<tasks, entries, sess, started, seqvars, colvars>>

DevicesNext ==
    \/ \E d \in Devices : \E req \in DeviceRequest(d) : Begin(d, req)
    \/ \E d \in Devices : TaskStep(d)
    \/ \E d \in Devices : EntryStep(d)
    \/ \E d \in Devices : Commit(d)
    \/ \E d \in Devices : CommitFails(d)
    \/ \E d \in Devices : Deliver(d)
    \/ Tick

DevicesSpec == Init /\ [][DevicesNext]_vars

\* ------------------------------------------- the collapser on its own
\* Changes as _collapse_changes reads them: data.id and
\* data.client_updated_at, and a title that tells changes apart.
ListIds == {"t1", "t2"}
ListChange ==
    { [op |-> "upsert", data |-> [id |-> i, client_updated_at |-> r, title |-> t]] :
        i \in ListIds, r \in Revs, t \in {"A", "B"} }

CollapserInit ==
    /\ StoreEmpty
    /\ DevicesIdle
    /\ batch \in SeqsUpTo(ListChange, MaxList)
    /\ collapsed = None

\* _collapse_changes(batch) is called and returns.
Collapse ==
    /\ IsNone(collapsed)
    /\ collapsed' = Some(CollapseChanges(batch))
    /\ UNCHANGED <<tasks, entries, now, seqvars, devvars, batch>>

CollapserNext == Collapse

CollapserSpec == CollapserInit /\ [][CollapserNext]_vars

\* ------------------------------------------------- notions of the claims
\* The fields of a task (row or payload) that a payload sets.
TaskFields(r) ==
    [title |-> r.title, description |-> r.description, created_at |-> r.created_at,
     deleted_at |-> r.deleted_at, client_updated_at |-> r.client_updated_at]

\* The fields of a time entry (row or payload) that a payload sets.
EntryFields(r) ==
    [task_id |-> r.task_id, started_at |-> r.started_at, stopped_at |-> r.stopped_at,
     comment |-> r.comment, created_at |-> r.created_at,
     deleted_at |-> r.deleted_at, client_updated_at |-> r.client_updated_at]

\* A request that carries one task payload, one time entry payload.
TaskRequest(p) ==
    [last_sync_at |-> None, tasks |-> <<[op |-> OpOf(p), data |-> p]>>,
     time_entries |-> <<>>]

EntryRequest(p) ==
    [last_sync_at |-> None, tasks |-> <<>>,
     time_entries |-> <<[op |-> OpOf(p), data |-> p]>>]

\* The store as it is.
Store == [tasks |-> tasks, entries |-> entries]

\* The store after user syncs req from store S.
After(S, user, req) == StoreAfter(S.tasks, S.entries, user, req, now)

\* The store after user syncs first and then second, from the store as it is.
AfterBoth(user, first, second) == After(After(Store, user, first), user, second)

TaskShows(S, p) ==
    p.id \in DOMAIN S.tasks /\ TaskFields(S.tasks[p.id]) = TaskFields(p)

EntryShows(S, p) ==
    p.id \in DOMAIN S.entries /\ EntryFields(S.entries[p.id]) = EntryFields(p)

\* --------------------------------------------------------------- C1
\* The winning payload q can be applied for user: the task is not stored,
\* or user owns it and its revision is not newer than q's.
TaskOpenTo(user, q) ==
    \/ q.id \notin DOMAIN tasks
    \/ /\ q.id \in DOMAIN tasks
       /\ tasks[q.id].user_id = user
       /\ tasks[q.id].client_updated_at <= q.client_updated_at

\* The same for a time entry; one not stored yet needs q's task_id to name
\* a stored task of user.
EntryOpenTo(user, q) ==
    \/ /\ q.id \notin DOMAIN entries
       /\ q.task_id \in DOMAIN tasks
       /\ tasks[q.task_id].user_id = user
    \/ /\ q.id \in DOMAIN entries
       /\ entries[q.id].user_id = user
       /\ entries[q.id].client_updated_at <= q.client_updated_at

\* C1 as stated, for a task: two requests of one principal, each with one
\* payload for the same task id and different client_updated_at, run in
\* either order from the same store, leave the task with the fields of the
\* payload with the greater client_updated_at.
ConvergenceAsClaimed ==
    \A u \in Users : \A p, q \in TaskPayload :
      (p.id = q.id /\ p.client_updated_at < q.client_updated_at) =>
        /\ TaskShows(AfterBoth(u, TaskRequest(p), TaskRequest(q)), q)
        /\ TaskShows(AfterBoth(u, TaskRequest(q), TaskRequest(p)), q)

\* C1 amended: the same, provided the record is not stored or is owned by
\* the principal with a stored client_updated_at not greater than the
\* greater payload's, and, for a time entry not stored yet, the greater
\* payload's task_id names a stored task of the principal.
Convergence ==
    \A u \in Users :
      /\ \A p, q \in TaskPayload :
           (p.id = q.id /\ p.client_updated_at < q.client_updated_at
              /\ TaskOpenTo(u, q)) =>
             /\ TaskShows(AfterBoth(u, TaskRequest(p), TaskRequest(q)), q)
             /\ TaskShows(AfterBoth(u, TaskRequest(q), TaskRequest(p)), q)
      /\ \A p, q \in TimeEntryPayload :
           (p.id = q.id /\ p.client_updated_at < q.client_updated_at
              /\ EntryOpenTo(u, q)) =>
             /\ EntryShows(AfterBoth(u, EntryRequest(p), EntryRequest(q)), q)
             /\ EntryShows(AfterBoth(u, EntryRequest(q), EntryRequest(p)), q)

\* A stored task of a principal, two payloads for it with revisions above
\* the stored one: the lesser one is applied when it comes first, and both
\* orders end with the greater one.
ConvergenceWitness ==
    \E u \in Users : \E p, q \in TaskPayload :
      /\ p.id = q.id
      /\ p.id \in DOMAIN tasks
      /\ tasks[p.id].user_id = u
      /\ tasks[p.id].client_updated_at < p.client_updated_at
      /\ p.client_updated_at < q.client_updated_at
      /\ TaskFields(p) # TaskFields(q)
      /\ TaskShows(After(Store, u, TaskRequest(p)), p)
      /\ TaskShows(AfterBoth(u, TaskRequest(p), TaskRequest(q)), q)
      /\ TaskShows(AfterBoth(u, TaskRequest(q), TaskRequest(p)), q)

\* --------------------------------------------------------------- C2
\* C2: a request of principal A changes no field of a stored task or time
\* entry owned by another principal, and no request changes the owner of a
\* stored record (or removes the record).
OwnershipIsolation ==
    [][ /\ \A i \in DOMAIN tasks :
             /\ i \in DOMAIN tasks'
             /\ tasks'[i].user_id = tasks[i].user_id
             /\ (caller' # Some(tasks[i].user_id) => tasks'[i] = tasks[i])
        /\ \A i \in DOMAIN entries :
             /\ i \in DOMAIN entries'
             /\ entries'[i].user_id = entries[i].user_id
             /\ (caller' # Some(entries[i].user_id) => entries'[i] = entries[i])
      ]_vars

\* A request of one principal carries a payload for a task of another
\* principal, with a revision that would win, and the task stays as it is.
OwnershipIsolationWitness ==
    \E u \in Users : \E p \in TaskPayload :
      /\ p.id \in DOMAIN tasks
      /\ tasks[p.id].user_id # u
      /\ caller = Some(u)
      /\ p.client_updated_at > tasks[p.id].client_updated_at
      /\ TaskFields(p) # TaskFields(tasks[p.id])
      /\ After(Store, u, TaskRequest(p)) = Store

\* --------------------------------------------------------------- C3
\* C3: a request that creates task X and carries a payload for a new time
\* entry whose task_id is X stores the task and the time entry.
SameBatchVisibility ==
    \A u \in Users : \A p \in TaskPayload : \A e \in TimeEntryPayload :
      (p.id \notin DOMAIN tasks /\ e.id \notin DOMAIN entries /\ e.task_id = p.id) =>
        LET S == After(Store, u,
                       [last_sync_at |-> None,
                        tasks |-> <<[op |-> OpOf(p), data |-> p]>>,
                        time_entries |-> <<[op |-> OpOf(e), data |-> e]>>]) IN
        /\ TaskShows(S, p)
        /\ S.tasks[p.id].user_id = u
        /\ EntryShows(S, e)
        /\ S.entries[e.id].user_id = u

\* --------------------------------------------------------------- C4
\* A response payload, a stored row, without the server's updated_at.
TaskSansStamp(r) == [id |-> r.id, fields |-> TaskFields(r)]
EntrySansStamp(r) == [id |-> r.id, fields |-> EntryFields(r)]
StoreSansStamp(S) ==
    [tasks |-> [i \in DOMAIN S.tasks |->
                  [user_id |-> S.tasks[i].user_id, fields |-> TaskFields(S.tasks[i])]],
     entries |-> [i \in DOMAIN S.entries |->
                  [user_id |-> S.entries[i].user_id,
                   fields |-> EntryFields(S.entries[i])]]]

\* C4: the same request run twice in a row returns the same tasks and time
\* entries both times and leaves the same store, updated_at apart.
Idempotence ==
    \A u \in Users : \A req \in SyncRequest :
      LET S1 == After(Store, u, req)
          S2 == After(S1, u, req)
          R1 == SyncResponse(S1.tasks, S1.entries, u, req.last_sync_at, now)
          R2 == SyncResponse(S2.tasks, S2.entries, u, req.last_sync_at, now) IN
      /\ { TaskSansStamp(t) : t \in R1.tasks } = { TaskSansStamp(t) : t \in R2.tasks }
      /\ { EntrySansStamp(t) : t \in R1.time_entries }
           = { EntrySansStamp(t) : t \in R2.time_entries }
      /\ StoreSansStamp(S1) = StoreSansStamp(S2)

\* --------------------------------------------------------------- C5
Change(p) == [op |-> OpOf(p), data |-> p]

\* The record is as the request found it.
TaskUntouched(S, i) ==
    IF i \in DOMAIN tasks THEN i \in DOMAIN S.tasks /\ S.tasks[i] = tasks[i]
    ELSE i \notin DOMAIN S.tasks

EntryUntouched(S, i) ==
    IF i \in DOMAIN entries THEN i \in DOMAIN S.entries /\ S.entries[i] = entries[i]
    ELSE i \notin DOMAIN S.entries

\* Not stale against the stored record, if there is one.
TaskNotStale(q) ==
    q.id \in DOMAIN tasks => q.client_updated_at >= tasks[q.id].client_updated_at

EntryNotStale(q) ==
    q.id \in DOMAIN entries => q.client_updated_at >= entries[q.id].client_updated_at

DeltaCompleteness ==
    ~IsNone(response) =>
      LET r == Get(response)
          u == Get(caller)
          Due(row) == IsNone(watermark) \/ row.updated_at >= Get(watermark) IN
      /\ { t.id : t \in r.tasks }
           = { i \in DOMAIN tasks : tasks[i].user_id = u /\ Due(tasks[i]) }
      /\ { t.id : t \in r.time_entries }
           = { i \in DOMAIN entries : entries[i].user_id = u /\ Due(entries[i]) }
      /\ \A t \in r.tasks :
           /\ TaskFields(t) = TaskFields(tasks[t.id])
           /\ t.updated_at = tasks[t.id].updated_at
      /\ \A t \in r.time_entries :
           /\ EntryFields(t) = EntryFields(entries[t.id])
           /\ t.updated_at = entries[t.id].updated_at
      /\ Cardinality(r.tasks) = Cardinality({ t.id : t \in r.tasks })
      /\ Cardinality(r.time_entries) = Cardinality({ t.id : t \in r.time_entries })

\* A response to a request with a watermark that holds a soft-deleted time
\* entry of the caller stamped at the watermark and leaves out the caller's
\* task, stamped before it.
DeltaCompletenessWitness ==
    /\ ~IsNone(response)
    /\ ~IsNone(watermark)
    /\ \E i \in DOMAIN tasks :
         /\ tasks[i].user_id = Get(caller)
         /\ tasks[i].updated_at < Get(watermark)
         /\ Get(response).tasks = {}
    /\ \E t \in Get(response).time_entries :
         /\ t.updated_at = Get(watermark)
         /\ ~IsNone(t.deleted_at)

\* --------------------------------------------------------------- C7
\* The request of this step created the record or overwrote it.
TaskWritten(i) ==
    i \in DOMAIN tasks' /\ (i \in DOMAIN tasks => tasks'[i] # tasks[i])

EntryWritten(i) ==
    i \in DOMAIN entries' /\ (i \in DOMAIN entries => entries'[i] # entries[i])

\* C7 as stated: whatever watermark a request carries, every record it
\* created or overwrote is in its response, with the updated_at the server
\* gave it.
EchoAsClaimed ==
    [][ /\ \A i \in TaskIds : TaskWritten(i) =>
             /\ tasks'[i].updated_at = now
             /\ TaskOut(i, tasks'[i]) \in Get(response').tasks
        /\ \A i \in EntryIds : EntryWritten(i) =>
             /\ entries'[i].updated_at = now
             /\ TimeEntryOut(i, entries'[i]) \in Get(response').time_entries
      ]_vars

\* C7 amended: every record a request created or overwrote carries the
\* server's clock reading as updated_at, and is in the request's response
\* with it when the request has no watermark or one not later than that
\* reading.
Echo ==
    [][ /\ \A i \in TaskIds : TaskWritten(i) =>
             /\ tasks'[i].updated_at = now
             /\ (IsNone(watermark') \/ Get(watermark') <= now) =>
                  TaskOut(i, tasks'[i]) \in Get(response').tasks
        /\ \A i \in EntryIds : EntryWritten(i) =>
             /\ entries'[i].updated_at = now
             /\ (IsNone(watermark') \/ Get(watermark') <= now) =>
                  TimeEntryOut(i, entries'[i]) \in Get(response').time_entries
      ]_vars

\* A response to a request with a watermark equal to the clock's reading,
\* holding a task and a time entry stamped with that reading.
EchoWitness ==
    /\ ~IsNone(response)
    /\ ~IsNone(watermark)
    /\ Get(watermark) = now
    /\ \E t \in Get(response).tasks : t.updated_at = now
    /\ \E t \in Get(response).time_entries : t.updated_at = now

\* --------------------------------------------------------------- C8
\* The requests whose store effect is looked at (the watermark has none).
Unmarked == { req \in SyncRequest : IsNone(req.last_sync_at) }

\* The payload the time entry phase hands to the applier for id i, if any.
EntryWinners(req) ==
    LET w == CollapseChanges(req.time_entries) IN { w[k].data : k \in 1..Len(w) }

TaskWinners(req) ==
    LET w == CollapseChanges(req.tasks) IN { w[k].data : k \in 1..Len(w) }

\* req without its time entry changes for id i.
WithoutEntry(req, i) ==
    [req EXCEPT !.time_entries = SelectSeq(req.time_entries, LAMBDA c : c.data.id # i)]

\* The payload is for a time entry not stored, and its task_id names no task
\* (none stored, none the request stores) or a task of another principal.
Orphan(S, user, e) ==
    /\ e.id \notin DOMAIN entries
    /\ \/ e.task_id \notin DOMAIN S.tasks
       \/ S.tasks[e.task_id].user_id # user

\* C8: an orphan time entry payload creates no time entry and changes
\* nothing: the store and the response are those of the request without it.
OrphanRejection ==
    \A u \in Users : \A req \in SyncRequest :
      LET S == After(Store, u, req) IN
      \A e \in EntryWinners(req) :
        Orphan(S, u, e) =>
          /\ e.id \notin DOMAIN S.entries
          /\ S = After(Store, u, WithoutEntry(req, e.id))
          /\ SyncResponse(S.tasks, S.entries, u, req.last_sync_at, now)
               = SyncResponse(After(Store, u, WithoutEntry(req, e.id)).tasks,
                              After(Store, u, WithoutEntry(req, e.id)).entries,
                              u, req.last_sync_at, now)

\* A stored task of one principal.  A request of its owner with a task
\* payload that is applied and a time entry payload whose task_id names no
\* task; and a request of another principal with a time entry payload whose
\* task_id names that task.  Neither creates a time entry.
OrphanRejectionWitness ==
    \E u, v \in Users : \E req, other \in Unmarked :
      LET S == After(Store, u, req) IN
      /\ u # v
      /\ \E i \in DOMAIN tasks : tasks[i].user_id = u
      /\ S.tasks # tasks
      /\ S.entries = entries
      /\ \E e \in EntryWinners(req) : Orphan(S, u, e) /\ e.task_id \notin DOMAIN S.tasks
      /\ After(Store, v, other) = Store
      /\ \E e \in EntryWinners(other) :
           Orphan(Store, v, e) /\ e.task_id \in DOMAIN tasks

\* --------------------------------------------------------------- C9
\* C9: a payload for a record of the caller with a client_updated_at less
\* than the stored one leaves every field of the record as it was; a later
\* payload with a client_updated_at greater than the stored one is applied.
StaleSkip ==
    \A u \in Users : \A req \in Unmarked :
      LET S == After(Store, u, req) IN
      /\ \A p \in TaskWinners(req) :
           (/\ p.id \in DOMAIN tasks
            /\ tasks[p.id].user_id = u
            /\ p.client_updated_at < tasks[p.id].client_updated_at) =>
             /\ S.tasks[p.id] = tasks[p.id]
             /\ \A q \in TaskPayload :
                  (q.id = p.id /\ q.client_updated_at > tasks[p.id].client_updated_at) =>
                    TaskShows(After(S, u, TaskRequest(q)), q)
      /\ \A p \in EntryWinners(req) :
           (/\ p.id \in DOMAIN entries
            /\ entries[p.id].user_id = u
            /\ p.client_updated_at < entries[p.id].client_updated_at) =>
             /\ S.entries[p.id] = entries[p.id]
             /\ \A q \in TimeEntryPayload :
                  (q.id = p.id /\ q.client_updated_at > entries[p.id].client_updated_at) =>
                    EntryShows(After(S, u, EntryRequest(q)), q)

\* The scenario of the specification: a task stored with revision t1, a
\* payload with t0 < t1 and other fields that is skipped, then a payload with
\* t2 > t1 that is applied.
StaleSkipWitness ==
    \E u \in Users : \E p, q \in TaskPayload :
      /\ p.id \in DOMAIN tasks /\ q.id = p.id
      /\ tasks[p.id].user_id = u
      /\ p.client_updated_at < tasks[p.id].client_updated_at
      /\ tasks[p.id].client_updated_at < q.client_updated_at
      /\ p.title # tasks[p.id].title
      /\ After(Store, u, TaskRequest(p)) = Store
      /\ TaskShows(After(After(Store, u, TaskRequest(p)), u, TaskRequest(q)), q)

\* -------------------------------------------------------------- C10
\* C10: a payload for a record of the caller with a client_updated_at equal
\* to the stored one is applied: the record gets the payload's fields and
\* the server's stamp.
TieBreak ==
    \A u \in Users : \A req \in Unmarked :
      LET S == After(Store, u, req) IN
      /\ \A p \in TaskWinners(req) :
           (/\ p.id \in DOMAIN tasks
            /\ tasks[p.id].user_id = u
            /\ p.client_updated_at = tasks[p.id].client_updated_at) =>
             TaskShows(S, p) /\ S.tasks[p.id].updated_at = now
      /\ \A p \in EntryWinners(req) :
           (/\ p.id \in DOMAIN entries
            /\ entries[p.id].user_id = u
            /\ p.client_updated_at = entries[p.id].client_updated_at) =>
             EntryShows(S, p) /\ S.entries[p.id].updated_at = now

\* A stored task of the caller and a payload with the stored revision and
\* other fields, at a later clock reading: the payload replaces the fields.
TieBreakWitness ==
    \E u \in Users : \E p \in TaskPayload :
      /\ p.id \in DOMAIN tasks
      /\ tasks[p.id].user_id = u
      /\ p.client_updated_at = tasks[p.id].client_updated_at
      /\ TaskFields(p) # TaskFields(tasks[p.id])
      /\ tasks[p.id].updated_at < now
      /\ TaskShows(After(Store, u, TaskRequest(p)), p)

\* -------------------------------------------------------------- C11
TaskColumns == {"user_id", "title", "description", "created_at", "updated_at",
                "deleted_at", "client_updated_at"}
EntryColumns == {"user_id", "task_id", "started_at", "stopped_at", "comment",
                 "created_at", "updated_at", "deleted_at", "client_updated_at"}

\* The tables after the step hold all the Session of d was to store: every
\* row it added, and every column it changed of a row it loaded; each row
\* it did not touch is as before.
AllStored(d) ==
    /\ DOMAIN tasks' = DOMAIN tasks \cup DOMAIN sess[d].curT
    /\ DOMAIN entries' = DOMAIN entries \cup DOMAIN sess[d].curE
    /\ \A i \in DOMAIN tasks' :
         IF i \notin DOMAIN sess[d].curT THEN tasks'[i] = tasks[i]
         ELSE IF i \notin DOMAIN sess[d].loadedT THEN tasks'[i] = sess[d].curT[i]
         ELSE \A c \in TaskColumns :
                tasks'[i][c] = IF sess[d].curT[i][c] # sess[d].loadedT[i][c]
                               THEN sess[d].curT[i][c] ELSE tasks[i][c]
    /\ \A i \in DOMAIN entries' :
         IF i \notin DOMAIN sess[d].curE THEN entries'[i] = entries[i]
         ELSE IF i \notin DOMAIN sess[d].loadedE THEN entries'[i] = sess[d].curE[i]
         ELSE \A c \in EntryColumns :
                entries'[i][c] = IF sess[d].curE[i][c] # sess[d].loadedE[i][c]
                                 THEN sess[d].curE[i][c] ELSE entries[i][c]

NoLostUpdate ==
    \A d, e \in Devices :
      (/\ pc[d] = "query" /\ pc[e] = "query"
       /\ Len(job[d].req.tasks) = 1 /\ Len(job[e].req.tasks) = 1) =>
        LET p == job[d].req.tasks[1].data
            q == job[e].req.tasks[1].data IN
        (/\ p.id = q.id
         /\ p.client_updated_at < q.client_updated_at
         /\ tasks[q.id].client_updated_at <= q.client_updated_at) =>
          TaskShows(Store, q)

\* -------------------------------------------------------------- C13
\* The response of user to req, sent when the store is S.
DeltaOf(S, user, req) ==
    LET R == SyncResponse(After(S, user, req).tasks, After(S, user, req).entries,
                          user, req.last_sync_at, now) IN
    [tasks |-> R.tasks, time_entries |-> R.time_entries]

\* C13: a request of principal A and a request of another principal B, run
\* one after the other from the store as it is, leave the same store and
\* give each principal the same delta in the order A, B as in the order B, A.
PrincipalIndependence ==
    \A a, b \in Users : (a # b) =>
      \A ra, rb \in Unmarked :
        /\ After(After(Store, a, ra), b, rb) = After(After(Store, b, rb), a, ra)
        /\ DeltaOf(Store, a, ra) = DeltaOf(After(Store, b, rb), a, ra)
        /\ DeltaOf(Store, b, rb) = DeltaOf(After(Store, a, ra), b, rb)

\* -------------------------------------------------------------- C14
\* C14: no request changes the task_id of a stored time entry.
TaskIdFixed ==
    [][ \A i \in DOMAIN entries :
          i \in DOMAIN entries' /\ entries'[i].task_id = entries[i].task_id ]_vars

\* -------------------------------------------------------------- C15
\* The positions of the changes for id in the list.
Group(changes, id) == { k \in 1..Len(changes) : changes[k].data.id = id }

\* The position the collapser is to keep for id: the latest one among those
\* with the greatest client_updated_at of the group.
Kept(changes, id) ==
    CHOOSE k \in Group(changes, id) :
      \A j \in Group(changes, id) :
        \/ changes[j].data.client_updated_at < changes[k].data.client_updated_at
        \/ (changes[j].data.client_updated_at = changes[k].data.client_updated_at
              /\ j <= k)

\* C15: _collapse_changes returns one change per id of its input, and for
\* each id the change with the greatest client_updated_at of its group, the
\* one at the latest position among several with that value.
CollapserResult ==
    ~IsNone(collapsed) =>
      LET out == Get(collapsed)
          ids == { batch[k].data.id : k \in 1..Len(batch) } IN
      /\ Len(out) = Cardinality(ids)
      /\ { out[k].data.id : k \in 1..Len(out) } = ids
      /\ \A k \in 1..Len(out) : out[k] = batch[Kept(batch, out[k].data.id)]

\* A list of three changes: two for one id with the same client_updated_at
\* and different contents, of which the later is returned, and before them
\* one for another id, which is returned as well.
CollapserResultWitness ==
    /\ ~IsNone(collapsed)
    /\ Len(batch) = 3
    /\ batch[1].data.id # batch[2].data.id
    /\ batch[2].data.id = batch[3].data.id
    /\ batch[2].data.client_updated_at = batch[3].data.client_updated_at
    /\ batch[2] # batch[3]
    /\ Get(collapsed) = <<batch[1], batch[3]>>

\* -------------------------------------------------------------- C16
\* The requests that differ from req in the op values of its changes only.
Retagged(req) ==
    { [last_sync_at |-> req.last_sync_at,
       tasks |-> [k \in 1..Len(req.tasks) |->
                    [op |-> ft[k], data |-> req.tasks[k].data]],
       time_entries |-> [k \in 1..Len(req.time_entries) |->
                    [op |-> fe[k], data |-> req.time_entries[k].data]]] :
      ft \in [1..Len(req.tasks) -> Ops],
      fe \in [1..Len(req.time_entries) -> Ops] }

\* C16: a request and any request that differs from it in op values only
\* leave the same store and get the same response; and a record that a
\* request leaves deleted, and that was not deleted before, shows the fields
\* of a payload of the request with a non-null deleted_at.
OpNotLoadBearing ==
    \A u \in Users : \A req \in Unmarked :
      \E S \in {After(Store, u, req)} :
        /\ \A other \in Retagged(req) \ {req} :
             \E R \in {After(Store, u, other)} :
               /\ R = S
               /\ SyncResponse(R.tasks, R.entries, u, other.last_sync_at, now)
                    = SyncResponse(S.tasks, S.entries, u, req.last_sync_at, now)
        /\ \A i \in DOMAIN S.tasks :
             (/\ ~IsNone(S.tasks[i].deleted_at)
              /\ (i \in DOMAIN tasks => IsNone(tasks[i].deleted_at))) =>
               \E p \in TaskWinners(req) :
                 p.id = i /\ ~IsNone(p.deleted_at) /\ TaskShows(S, p)
        /\ \A i \in DOMAIN S.entries :
             (/\ ~IsNone(S.entries[i].deleted_at)
              /\ (i \in DOMAIN entries => IsNone(entries[i].deleted_at))) =>
               \E p \in EntryWinners(req) :
                 p.id = i /\ ~IsNone(p.deleted_at) /\ EntryShows(S, p)

\* A stored task of a principal, not deleted.  A payload for it that is not
\* stale and has no deleted_at, sent with op "delete", is applied and leaves
\* the task not deleted; a payload with a deleted_at, sent with op "upsert",
\* leaves it deleted.
OpNotLoadBearingWitness ==
    \E u \in Users : \E p, q \in TaskPayload :
      /\ p.id \in DOMAIN tasks /\ q.id = p.id
      /\ tasks[p.id].user_id = u
      /\ IsNone(tasks[p.id].deleted_at)
      /\ IsNone(p.deleted_at) /\ ~IsNone(q.deleted_at)
      /\ TaskFields(p) # TaskFields(tasks[p.id])
      /\ \E S \in {After(Store, u, [last_sync_at |-> None,
                                    tasks |-> <<[op |-> "delete", data |-> p]>>,
                                    time_entries |-> <<>>])} :
           TaskShows(S, p) /\ IsNone(S.tasks[p.id].deleted_at)
      /\ \E S \in {After(Store, u, [last_sync_at |-> None,
                                    tasks |-> <<[op |-> "upsert", data |-> q]>>,
                                    time_entries |-> <<>>])} :
           TaskShows(S, q) /\ ~IsNone(S.tasks[q.id].deleted_at)

\* -------------------------------------------------------------- C17
\* C17: with requests handled one at a time, the client_updated_at of a
\* stored task or time entry never decreases, and in every state it is the
\* greatest client_updated_at of the payloads applied to the record.
HighWaterMark ==
    /\ [](/\ DOMAIN high.tasks = DOMAIN tasks
          /\ DOMAIN high.entries = DOMAIN entries
          /\ \A i \in DOMAIN tasks : tasks[i].client_updated_at = high.tasks[i]
          /\ \A i \in DOMAIN entries : entries[i].client_updated_at = high.entries[i])
    /\ [][ /\ \A i \in DOMAIN tasks :
                /\ i \in DOMAIN tasks'
                /\ tasks'[i].client_updated_at >= tasks[i].client_updated_at
           /\ \A i \in DOMAIN entries :
                /\ i \in DOMAIN entries'
                /\ entries'[i].client_updated_at >= entries[i].client_updated_at
         ]_vars

\* A task and a time entry whose client_updated_at was raised by a later
\* payload (the greatest applied is above the least a payload carries), and
\* a payload of the owner below it, with other fields, that is not applied.
HighWaterMarkWitness ==
    \E u \in Users : \E p \in TaskPayload :
      /\ p.id \in DOMAIN tasks
      /\ tasks[p.id].user_id = u
      /\ high.tasks[p.id] > 1
      /\ p.client_updated_at < high.tasks[p.id]
      /\ TaskFields(p) # TaskFields(tasks[p.id])
      /\ After(Store, u, TaskRequest(p)) = Store
      /\ \E i \in DOMAIN entries : high.entries[i] > 1

\* -------------------------------------------------------------- C18
\* C18: in every state every stored time entry has a task_id that names a
\* stored task whose owner is the owner of the time entry.
ReferentialConsistency ==
    \A i \in DOMAIN entries :
      /\ entries[i].task_id \in DOMAIN tasks
      /\ tasks[entries[i].task_id].user_id = entries[i].user_id

\* -------------------------------------------------------------- C19
\* C19: a device that sends the server_time of each response as its next
\* last_sync_at holds, once a response gave it server_time W, every task and
\* time entry of its principal stored with an updated_at below W as it is
\* stored: no later delta of the device would select the record.
NoMissedChange ==
    \A d \in Devices :
      ~IsNone(cursor[d]) =>
        /\ \A i \in DOMAIN tasks :
             (tasks[i].user_id = Principal /\ tasks[i].updated_at < Get(cursor[d])) =>
               /\ i \in DOMAIN got[d].tasks
               /\ got[d].tasks[i] = TaskOut(i, tasks[i])
        /\ \A i \in DOMAIN entries :
             (entries[i].user_id = Principal
                /\ entries[i].updated_at < Get(cursor[d])) =>
               /\ i \in DOMAIN got[d].time_entries
               /\ got[d].time_entries[i] = TimeEntryOut(i, entries[i])

====
